---- MODULE Spec2Model ----
(***************************************************************************)
(* A model of TwitterPostClient (engine/trending-searches.ts): the         *)
(* generation loop, the approved-dispatch loop, the action-processing      *)
(* loop, the store of pending posts they share and the request queue      *)
(* their network sends go through.  Time is abstracted: a timer that has   *)
(* been set may fire at any later step.  Every await of the source that    *)
(* touches shared state is a step of its own, so that the handlers         *)
(* interleave exactly where the event loop lets them.                      *)
(***************************************************************************)
EXTENDS Integers, Sequences, FiniteSets, TLC

\* Bounds of the model.
MaxTweets == 2
MaxTicks == 2
MaxStored == 1
MaxItems == 1

\* Program constants.
Main == 0

Ids == 1..MaxTweets
Ticks == 1..MaxTicks
Items == 1..MaxItems
\* start() calls generateNewTweetLoop() at two places: one chain per call.
Chains == {1, 2}
GenRunners == {Main} \cup Chains
\* The callers of processTweetActions.
Callers == {1, 2}
Owners ==
    ({"gen"} \X GenRunners) \cup ({"tick"} \X Ticks) \cup ({"act"} \X Callers)

Outcomes == {"ok", "bad", "throw"}
ActionNames == {"like", "retweet", "quote", "reply"}
NoResult == [owner |-> <<"none", 0>>, outcome |-> "none"]

VARIABLES
    status,          \* tweets table: id -> none | pending | approved | sent | error
    sends,           \* network: id -> number of sendTweet calls per origin
    queue,           \* request queue: the tasks waiting, oldest first
    running,         \* request queue: the tasks executing
    resolved,        \* owner -> the result its promise was settled with
    order,           \* the owners of the submissions not yet started, oldest first
    postImmediately, \* start()'s flag
    gpc, gid,        \* generation runners: position, id of the record saved
    tweetInterval,   \* agent setting tweet_interval
    ginterval,       \* chain -> the interval (ms) its last getPostInterval returned
    gcontent,        \* runner -> what the cleaning of its last generation left
    call, ret,       \* a function under study: its arguments, its result
    now, saved,      \* saveTweetToDb: the clock (ms), the records handed to the store
    trend,           \* generateTrendingConnections: the state of one call
    tpc, tlist, tidx,\* dispatch ticks: position, fetched list, index in it
    tclaimed,        \* tick -> it has marked its current item as sent
    dispatched,      \* ids some tick has finished dispatching
    adminLog,        \* the admin log: the entries saveLog has written
    swallowed,       \* <<tick, id>>: the failed best-effort writes swallowed
    lastPost,        \* cache twitter/<user>/lastPost: the post it names (0: none)
    timelineCache,   \* cache twitter/<user>/timeline: the posts it holds
    postMemories,    \* posts with a memory record keyed (postId, agentId)
    isProcessing,    \* TwitterPostClient.isProcessing
    stopProcessingActions,
    memories,        \* items with a memory record keyed (itemId, agentId)
    apc, aidx,       \* action callers: position, index in the timeline
    adecided,        \* caller -> the actions flagged for its current item
    aexecuted,       \* caller -> executedActions of its current item
    evaluated,       \* items some pass has obtained a decision for
    aattempted,      \* caller -> the actions of its current item it has begun
    afailed,         \* caller -> the actions of its current item that threw
    maction          \* item -> content.action of its memory record

queueVars == <<queue, running, resolved, order>>
pureVars == <<call, ret, now, saved, trend>>
intervalVars == <<tweetInterval, ginterval>>
genVars == <<postImmediately, gpc, gid, intervalVars, gcontent, pureVars>>
effectVars == <<adminLog, swallowed, lastPost, timelineCache, postMemories>>
tickVars == <<tpc, tlist, tidx, tclaimed, dispatched, effectVars>>
actVars ==
    <<isProcessing, stopProcessingActions, memories, apc, aidx, adecided,
      aexecuted, evaluated, aattempted, afailed, maction>>
vars == <<status, sends, queueVars, genVars, tickVars, actVars>>

----------------------------------------------------------------------------
\* The store of pending posts (tweetQueries).

getApprovedTweets ==
    LET RECURSIVE Upto(_)
        Upto(n) ==
            IF n = 0 THEN <<>>
            ELSE IF status[n] = "approved" THEN Append(Upto(n - 1), n)
            ELSE Upto(n - 1)
    IN Upto(MaxTweets)

getSentTweetById(id) == IF status[id] = "none" THEN {} ELSE {status[id]}

updateTweetStatus(id, s) == status' = [status EXCEPT ![id] = s]

markTweetAsSent(id) == updateTweetStatus(id, "sent")

markTweetAsError(id) == updateTweetStatus(id, "error")

FreeIds == {i \in Ids : status[i] = "none"}

saveTweetObject(id) == status' = [status EXCEPT ![id] = "pending"]

\* The external approval of a pending post.
Approve(id) ==
    /\ status[id] = "pending"
    /\ updateTweetStatus(id, "approved")
    /\ UNCHANGED <<sends, queueVars, genVars, tickVars, actVars>>

----------------------------------------------------------------------------
\* Strings are sequences of characters; positions count from 0 as in the
\* source.  Settings are strings, or missing.

Max(a, b) == IF a >= b THEN a ELSE b

Min(a, b) == IF a <= b THEN a ELSE b

Whitespace == {" ", "\n"}

\* String.prototype.slice(0, end): a negative end counts from the end.
Slice(s, end) ==
    SubSeq(s, 1, IF end < 0 THEN Max(Len(s) + end, 0) ELSE Min(end, Len(s)))

\* String.prototype.lastIndexOf(c, from): the last position <= from that
\* holds c, or -1; a negative from is taken as 0.
LastIndexOf(s, c, from) ==
    LET found == {i \in 0..Min(Max(from, 0), Len(s) - 1) : s[i + 1] = c}
    IN IF found = {} THEN -1 ELSE CHOOSE i \in found : \A j \in found : j <= i

\* String.prototype.trim().
Trim(s) ==
    LET kept == {i \in 1..Len(s) : s[i] \notin Whitespace}
    IN IF kept = {} THEN <<>>
       ELSE SubSeq(s, CHOOSE i \in kept : \A j \in kept : i <= j,
                      CHOOSE i \in kept : \A j \in kept : j <= i)

\* Number.NaN.  No string of the model is a negative number.
NaN == 0 - 1

Digits == <<"0", "1", "2", "3", "4", "5", "6", "7", "8", "9">>

DigitChars == {Digits[i] : i \in 1..Len(Digits)}

DigitValue(c) == (CHOOSE i \in 1..Len(Digits) : Digits[i] = c) - 1

RECURSIVE DecimalValue(_)
DecimalValue(s) ==
    IF s = <<>> THEN 0
    ELSE 10 * DecimalValue(SubSeq(s, 1, Len(s) - 1)) + DigitValue(s[Len(s)])

\* parseInt(s): the number written by the digits that follow the leading
\* whitespace, NaN when there is none.
parseInt(s) ==
    LET t == Trim(s)
        stops == {i \in 1..Len(t) : t[i] \notin DigitChars}
        n == IF stops = {} THEN Len(t)
             ELSE (CHOOSE i \in stops : \A j \in stops : i <= j) - 1
    IN IF n = 0 THEN NaN ELSE DecimalValue(SubSeq(t, 1, n))

\* A setting that is missing (null), and one that holds the string v.
Missing == [present |-> FALSE, value |-> <<>>]

Present(v) == [present |-> TRUE, value |-> v]

\* parseInt(getSetting(...)): parseInt(null) is NaN.
parseIntSetting(x) == IF x.present THEN parseInt(x.value) ELSE NaN

\* x || d for a number x: 0 and NaN are falsy.
OrDefault(x, d) == IF x = NaN \/ x = 0 THEN d ELSE x

\* Minutes in milliseconds; NaN stays NaN.
Minutes(m) == IF m = NaN THEN NaN ELSE m * 60 * 1000

----------------------------------------------------------------------------
\* The request queue (client.requestQueue).

Task(owner, kind, ref) == [owner |-> owner, kind |-> kind, ref |-> ref]

\* requestQueue.add(task): the task joins the queue, its caller awaits it.
RequestQueueAdd(owner, kind, ref) ==
    /\ queue' = Append(queue, Task(owner, kind, ref))
    /\ order' = Append(order, owner)
    /\ UNCHANGED <<running, resolved>>

\* The caller takes the result its promise was settled with.
TakeResult(owner) ==
    /\ resolved[owner] # NoResult
    /\ resolved' = [resolved EXCEPT ![owner] = NoResult]
    /\ UNCHANGED <<queue, running, order>>

QueueMayStart == running = {}

\* A queue that serves the newest task first.
NextTaskNewest == queue[Len(queue)]

NextTask == Head(queue)

\* The network call a task makes when it starts.
NetworkCall(task) ==
    IF task.kind = "post"
    THEN sends' = [sends EXCEPT ![task.ref][task.owner[1]] = @ + 1]
    ELSE UNCHANGED sends

QueueStart ==
    /\ queue # <<>>
    /\ QueueMayStart
    /\ LET task == NextTask IN
        /\ running' = running \cup {task}
        /\ queue' = SelectSeq(queue, LAMBDA x : x # task)
        /\ NetworkCall(task)
    /\ order' = Tail(order)
    /\ UNCHANGED <<status, resolved, genVars, tickVars, actVars>>

SettleOwner(task) == task.owner

QueueFinish ==
    /\ \E task \in running, outcome \in Outcomes :
        /\ running' = running \ {task}
        /\ resolved' =
            [resolved EXCEPT
                ![SettleOwner(task)] = [owner |-> task.owner, outcome |-> outcome]]
    /\ UNCHANGED <<status, sends, queue, order, genVars, tickVars, actVars>>

----------------------------------------------------------------------------
\* start() and the generation loop.

GenOwner(r) == <<"gen", r>>

\* A generation whose failure is not caught: its chain sets no further timer.
GenReturnFatal(r) == IF r = Main THEN "launching" ELSE "off"

\* Where a runner goes when generateNewTweet returns.
GenReturn(r) == IF r = Main THEN "launching" ELSE "interval"

LaunchChains == [r \in GenRunners |-> IF r = Main THEN "launched" ELSE "interval"]

\* start() from the first generateNewTweetLoop() on: both calls of
\* generateNewTweetLoop() and the call of processActionsLoop().
LaunchLoops ==
    /\ gpc' = LaunchChains
    /\ apc' = [a \in Callers |-> "loop"]

\* parseBooleanFromText of the core library, for the lower-case strings of
\* the model: an affirmative word is true, anything else false.
Affirmative ==
    {<<"t", "r", "u", "e">>, <<"y", "e", "s">>, <<"o", "n">>, <<"1">>}

parseBooleanFromText(s) == Trim(s) \in Affirmative

\* The values of the POST_IMMEDIATELY setting the model draws from.
FlagSettings ==
    {Missing, Present(<<>>), Present(<<"t", "r", "u", "e">>),
     Present(<<"f", "a", "l", "s", "e">>), Present(<<"1">>), Present(<<"0">>)}

\* start()'s flag after the POST_IMMEDIATELY setting has been consulted: a
\* setting that is neither null nor empty replaces the argument.
PostImmediately(arg, setting) ==
    IF setting.present /\ setting.value # <<>>
    THEN parseBooleanFromText(setting.value)
    ELSE arg

\* A start() that never awaits a generation of its own.
RunsImmediatelyNever == FALSE

\* if (postImmediately) await this.generateNewTweet().
RunsImmediately == postImmediately

\* start(): the dispatch loop's first tick runs at once; then the immediate
\* generation is awaited, if asked for, else the other loops are launched.
Start ==
    /\ gpc[Main] = "init"
    /\ tpc' = [tpc EXCEPT ![1] = "fetch"]
    /\ IF RunsImmediately
       THEN /\ gpc' = [gpc EXCEPT ![Main] = "generate"]
            /\ UNCHANGED apc
       ELSE LaunchLoops
    /\ UNCHANGED <<status, sends, queueVars, postImmediately, gid, intervalVars,
                   gcontent, pureVars, tlist, tidx,
                   tclaimed, dispatched, isProcessing, stopProcessingActions,
                   memories, aidx, adecided, aexecuted, evaluated, aattempted, afailed, maction, effectVars>>

\* start(), once the immediate generation has returned.
Launch ==
    /\ gpc[Main] = "launching"
    /\ LaunchLoops
    /\ UNCHANGED <<status, sends, queueVars, postImmediately, gid, intervalVars,
                   gcontent, pureVars, tickVars,
                   isProcessing, stopProcessingActions, memories, aidx, adecided,
                   aexecuted, evaluated, aattempted, afailed, maction>>

\* !result: null and the empty string are falsy.
NoSetting(x) == ~x.present \/ x.value = <<>>

\* The value a missing tweet_interval is created with.
DefaultInterval == <<"3", "0">>

\* result ?? "30": only null is replaced.
OrDefaultInterval(x) == IF x.present THEN x.value ELSE DefaultInterval

\* What getPostInterval returns from its catch.
FallbackInterval == Minutes(15)

\* getPostInterval returns to generateNewTweetLoop, which sets its timer.
IntervalReturn(g, ms) ==
    /\ ginterval' = [ginterval EXCEPT ![g] = ms]
    /\ gpc' = [gpc EXCEPT ![g] = "timer"]

\* generateNewTweetLoop: await getPostInterval(), then setTimeout.
\* getPostInterval up to its read of the setting: getAgentSetting throws
\* (the catch returns 15 minutes), finds a value (it is parsed and
\* returned), or finds none (the setting is to be created; what will be
\* returned is already fixed by what was read).
GetPostInterval(g) ==
    /\ gpc[g] = "interval"
    /\ \/ IntervalReturn(g, FallbackInterval)
       \/ /\ ~NoSetting(tweetInterval)
          /\ IntervalReturn(g, Minutes(parseInt(OrDefaultInterval(tweetInterval))))
       \/ /\ NoSetting(tweetInterval)
          /\ ginterval' = [ginterval EXCEPT ![g] =
                            Minutes(parseInt(OrDefaultInterval(tweetInterval)))]
          /\ gpc' = [gpc EXCEPT ![g] = "create"]
    /\ UNCHANGED <<status, sends, queueVars, postImmediately, gid, tweetInterval,
                   gcontent, pureVars, tickVars, actVars>>

\* getPostInterval, the creation of the setting: updateAgentSetting writes
\* "30", or throws to the catch.
UpdateAgentSetting(g) ==
    /\ gpc[g] = "create"
    /\ \/ /\ tweetInterval' = Present(DefaultInterval)
          /\ gpc' = [gpc EXCEPT ![g] = "timer"]
          /\ UNCHANGED ginterval
       \/ /\ IntervalReturn(g, FallbackInterval)
          /\ UNCHANGED tweetInterval
    /\ UNCHANGED <<status, sends, queueVars, postImmediately, gid, gcontent,
                   pureVars, tickVars, actVars>>

\* The generation timer fires.
TimerFire(g) ==
    /\ gpc[g] = "timer"
    /\ FreeIds # {}
    /\ gpc' = [gpc EXCEPT ![g] = "generate"]
    /\ UNCHANGED <<status, sends, queueVars, postImmediately, gid, intervalVars,
                   gcontent, pureVars, tickVars, actVars>>

\* A generation that goes on with a placeholder when the cleaning leaves
\* nothing.
AfterCleanPlaceholder(r, content) == "save"

\* if (!cleanedContent) return: only a text goes on to be saved.
AfterClean(r, content) == IF content = "text" THEN "save" ELSE GenReturn(r)

\* generateNewTweet up to the cleaned content: it throws before there is
\* any ("none"), or the cleaning leaves the empty string, or a text.
Generate(r) ==
    /\ gpc[r] = "generate"
    /\ \E content \in {"none", "empty", "text"} :
        /\ gcontent' = [gcontent EXCEPT ![r] = content]
        /\ gpc' = [gpc EXCEPT ![r] =
                      IF content = "none" THEN GenReturn(r)
                      ELSE AfterClean(r, content)]
    /\ UNCHANGED <<status, sends, queueVars, postImmediately, gid, intervalVars,
                   pureVars, tickVars, actVars>>

\* saveTweetToDb: the record is saved as pending, or the save throws.
SaveTweetToDb(r) ==
    /\ gpc[r] = "save"
    /\ \/ /\ FreeIds # {}
          /\ LET id == CHOOSE i \in FreeIds : \A j \in FreeIds : i <= j IN
              /\ saveTweetObject(id)
              /\ gid' = [gid EXCEPT ![r] = id]
          /\ gpc' = [gpc EXCEPT ![r] = "enqueue"]
       \/ /\ gpc' = [gpc EXCEPT ![r] = GenReturn(r)]
          /\ UNCHANGED <<status, gid>>
    /\ UNCHANGED <<sends, queueVars, postImmediately, intervalVars, gcontent,
                   pureVars, tickVars, actVars>>

\* generateNewTweet after the save: the post is submitted to the queue.
GenSubmit(r) ==
    /\ gpc[r] = "enqueue"
    /\ RequestQueueAdd(GenOwner(r), "post", gid[r])
    /\ gpc' = [gpc EXCEPT ![r] = "awaitSend"]
    /\ UNCHANGED <<status, sends, postImmediately, gid, intervalVars, gcontent,
                   pureVars, tickVars, actVars>>

\* A generation that marks its record as sent after a good response.
GenSendReturnMarks(r) ==
    /\ gpc[r] = "awaitSend"
    /\ resolved[GenOwner(r)] # NoResult
    /\ IF resolved[GenOwner(r)].outcome = "ok"
       THEN /\ status' = [status EXCEPT ![gid[r]] = "sent"]
            /\ lastPost' = gid[r]
            /\ postMemories' = postMemories \cup {gid[r]}
       ELSE UNCHANGED <<status, lastPost, postMemories>>
    /\ TakeResult(GenOwner(r))
    /\ gpc' = [gpc EXCEPT ![r] = GenReturn(r)]
    /\ gid' = [gid EXCEPT ![r] = 0]
    /\ UNCHANGED <<sends, postImmediately, intervalVars, gcontent,
                   pureVars, tpc, tlist, tidx, tclaimed, dispatched, adminLog,
                   swallowed, timelineCache, actVars>>

\* The send has settled: whatever the outcome, generateNewTweet returns
\* without touching the record.  After a good response it writes the
\* last-post cache and then the post's memory record, up to the first of
\* these writes that throws.
GenSendReturn(r) ==
    /\ gpc[r] = "awaitSend"
    /\ resolved[GenOwner(r)] # NoResult
    /\ IF resolved[GenOwner(r)].outcome = "ok"
       THEN \/ UNCHANGED <<lastPost, postMemories>>
            \/ /\ lastPost' = gid[r]
               /\ UNCHANGED postMemories
            \/ /\ lastPost' = gid[r]
               /\ postMemories' = postMemories \cup {gid[r]}
       ELSE UNCHANGED <<lastPost, postMemories>>
    /\ TakeResult(GenOwner(r))
    /\ gpc' = [gpc EXCEPT ![r] = GenReturn(r)]
    /\ gid' = [gid EXCEPT ![r] = 0]
    /\ UNCHANGED <<status, sends, postImmediately, intervalVars, gcontent,
                   pureVars, tpc, tlist, tidx, tclaimed, dispatched, adminLog,
                   swallowed, timelineCache, actVars>>

----------------------------------------------------------------------------
\* The approved-dispatch loop: checkAndSendApprovedTweets and
\* sendTweetAndUpdateCache.

TickOwner(t) == <<"tick", t>>

Cur(t) == tlist[t][tidx[t]]

\* The tick ends: nothing of it is left.
TickEnds(t) ==
    /\ tpc' = [tpc EXCEPT ![t] = "done"]
    /\ tlist' = [tlist EXCEPT ![t] = <<>>]
    /\ tidx' = [tidx EXCEPT ![t] = 0]
    /\ tclaimed' = [tclaimed EXCEPT ![t] = FALSE]

\* The for loop moves to its next item, or the tick ends.
NextTweet(t) ==
    IF tidx[t] < Len(tlist[t])
    THEN /\ tpc' = [tpc EXCEPT ![t] = "dup"]
         /\ tidx' = [tidx EXCEPT ![t] = @ + 1]
         /\ tclaimed' = [tclaimed EXCEPT ![t] = FALSE]
         /\ UNCHANGED tlist
    ELSE TickEnds(t)

\* A for loop that goes to its next item with no pause.
ToNextTweet(t) ==
    /\ NextTweet(t)
    /\ dispatched' = dispatched \cup {Cur(t)}

\* sendTweetAndUpdateCache has returned or thrown and the catch is done: the
\* item's dispatch is over, the 60 s pause begins.
ToDelay(t) ==
    /\ tpc' = [tpc EXCEPT ![t] = "delay"]
    /\ dispatched' = dispatched \cup {Cur(t)}
    /\ UNCHANGED <<tlist, tidx, tclaimed>>

\* A loop that sets its next timer only after the tick's work is over.
TickFireAfterDone(t) ==
    /\ t > 1
    /\ tpc[t] = "off"
    /\ tpc[t - 1] \in {"done", "logerr"}
    /\ tpc' = [tpc EXCEPT ![t] = "fetch"]
    /\ UNCHANGED <<status, sends, queueVars, genVars, tlist, tidx, tclaimed,
                   dispatched, actVars, effectVars>>

\* startApprovedTweetsLoop: the timer set by the previous tick fires.
TickFire(t) ==
    /\ t > 1
    /\ tpc[t] = "off"
    /\ tpc[t - 1] # "off"
    /\ tpc' = [tpc EXCEPT ![t] = "fetch"]
    /\ UNCHANGED <<status, sends, queueVars, genVars, tlist, tidx, tclaimed,
                   dispatched, actVars, effectVars>>

\* getApprovedTweets(): it throws, finds nothing, or yields the batch.
Fetch(t) ==
    /\ tpc[t] = "fetch"
    /\ \/ /\ tpc' = [tpc EXCEPT ![t] = "logerr"]
          /\ UNCHANGED <<tlist, tidx, tclaimed>>
       \/ /\ getApprovedTweets = <<>>
          /\ TickEnds(t)
       \/ /\ getApprovedTweets # <<>>
          /\ tlist' = [tlist EXCEPT ![t] = getApprovedTweets]
          /\ tidx' = [tidx EXCEPT ![t] = 1]
          /\ tpc' = [tpc EXCEPT ![t] = "dup"]
          /\ UNCHANGED tclaimed
    /\ UNCHANGED <<status, sends, queueVars, genVars, dispatched, actVars, effectVars>>

\* A dispatch that forgets the claim and sends at once.
AfterDupCheckNoClaim == "enqueue"

\* What the duplicate check does with an item that is not found sent.
AfterDupCheck == "claim"

\* The media fetch and the duplicate check: a throw leaves the batch, a sent
\* record is skipped (continue), any other record goes on to the claim.
DupCheck(t) ==
    /\ tpc[t] = "dup"
    /\ \/ /\ tpc' = [tpc EXCEPT ![t] = "logerr"]
          /\ UNCHANGED <<tlist, tidx, tclaimed>>
       \/ /\ "sent" \in getSentTweetById(Cur(t))
          /\ NextTweet(t)
       \/ /\ "sent" \notin getSentTweetById(Cur(t))
          /\ tpc' = [tpc EXCEPT ![t] = AfterDupCheck]
          /\ UNCHANGED <<tlist, tidx, tclaimed>>
    /\ UNCHANGED <<status, sends, queueVars, genVars, dispatched, actVars, effectVars>>

\* "mark as sent now": markTweetAsSent, or it throws and the batch is left.
Claim(t) ==
    /\ tpc[t] = "claim"
    /\ \/ /\ markTweetAsSent(Cur(t))
          /\ tclaimed' = [tclaimed EXCEPT ![t] = TRUE]
          /\ tpc' = [tpc EXCEPT ![t] = "enqueue"]
       \/ /\ tpc' = [tpc EXCEPT ![t] = "logerr"]
          /\ UNCHANGED <<status, tclaimed>>
    /\ UNCHANGED <<sends, queueVars, genVars, tlist, tidx, dispatched, actVars, effectVars>>

\* sendTweetAndUpdateCache: the send is submitted to the queue.
TickSubmit(t) ==
    /\ tpc[t] = "enqueue"
    /\ RequestQueueAdd(TickOwner(t), "post", Cur(t))
    /\ tpc' = [tpc EXCEPT ![t] = "awaitSend"]
    /\ UNCHANGED <<status, sends, genVars, tlist, tidx, tclaimed, dispatched, actVars, effectVars>>

\* The send has settled.  A rejection is caught (return null).  Otherwise
\* result.json() is awaited: it throws to the caller's catch, or the body is
\* inspected for the nested success path.
TickSendReturn(t) ==
    /\ tpc[t] = "awaitSend"
    /\ resolved[TickOwner(t)] # NoResult
    /\ LET outcome == resolved[TickOwner(t)].outcome IN
        \/ /\ outcome = "throw"
           /\ ToDelay(t)
        \/ /\ outcome # "throw"
           /\ tpc' = [tpc EXCEPT ![t] = "markError"]
           /\ UNCHANGED <<tlist, tidx, tclaimed, dispatched>>
        \/ /\ outcome = "bad"
           /\ tpc' = [tpc EXCEPT ![t] = "badStatus"]
           /\ UNCHANGED <<tlist, tidx, tclaimed, dispatched>>
        \/ /\ outcome = "ok"
           /\ tpc' = [tpc EXCEPT ![t] = "okStatus"]
           /\ UNCHANGED <<tlist, tidx, tclaimed, dispatched>>
    /\ TakeResult(TickOwner(t))
    /\ UNCHANGED <<status, sends, genVars, actVars, effectVars>>

\* A bad response that puts the record back among the approved ones.
BadResponseStatusRetry == "approved"

\* The status a bad response is recorded with.
BadResponseStatus == "error"

\* A failed best-effort write that reaches the caller's catch.
PropagateLogFailure(t) ==
    /\ tpc' = [tpc EXCEPT ![t] = "markError"]
    /\ swallowed' = swallowed \cup {<<t, Cur(t)>>}
    /\ UNCHANGED <<tlist, tidx, tclaimed, dispatched>>

\* The catch around the best-effort writes of a bad response: it logs to the
\* console only, and sendTweetAndUpdateCache returns null.
SwallowLogFailure(t) ==
    /\ ToDelay(t)
    /\ swallowed' = swallowed \cup {<<t, Cur(t)>>}

\* Bad response, first write: updateTweetStatus(id, "error", ...); a throw
\* skips the saveLog that follows.
BadStatus(t) ==
    /\ tpc[t] = "badStatus"
    /\ \/ /\ updateTweetStatus(Cur(t), BadResponseStatus)
          /\ tpc' = [tpc EXCEPT ![t] = "badLog"]
          /\ UNCHANGED <<tlist, tidx, tclaimed, dispatched, swallowed>>
       \/ /\ SwallowLogFailure(t)
          /\ UNCHANGED status
    /\ UNCHANGED <<sends, queueVars, genVars, actVars, adminLog, lastPost,
                   timelineCache, postMemories>>

\* A bad response that leaves no trace in the admin log.
BadResponseLogNone(id, t) == {}

\* The admin-log entry of a bad response: its id is made of the record's id
\* and the time.
BadResponseLog(id, t) == {<<"bad", id, t>>}

\* Bad response, second write: saveLog; then return null.
BadLog(t) ==
    /\ tpc[t] = "badLog"
    /\ \/ /\ adminLog' = adminLog \cup BadResponseLog(Cur(t), t)
          /\ ToDelay(t)
          /\ UNCHANGED swallowed
       \/ /\ SwallowLogFailure(t)
          /\ UNCHANGED adminLog
    /\ UNCHANGED <<status, sends, queueVars, genVars, actVars, lastPost,
                   timelineCache, postMemories>>

\* Good response: updateTweetStatus(id, "sent"), or it throws to the caller.
OkStatus(t) ==
    /\ tpc[t] = "okStatus"
    /\ \/ /\ updateTweetStatus(Cur(t), "sent")
          /\ tpc' = [tpc EXCEPT ![t] = "cache"]
       \/ /\ tpc' = [tpc EXCEPT ![t] = "markError"]
          /\ UNCHANGED status
    /\ UNCHANGED <<sends, queueVars, genVars, tlist, tidx, tclaimed, dispatched,
                   actVars, effectVars>>

\* The step out of one of the writes that follow a good response: on to the
\* next write, or to the caller's catch when the write throws.
NextWrite(t, next) ==
    /\ tpc' = [tpc EXCEPT ![t] = next]
    /\ UNCHANGED <<tlist, tidx, tclaimed, dispatched>>

\* cacheManager.set(twitter/<user>/lastPost).
Cache(t) ==
    /\ tpc[t] = "cache"
    /\ \/ /\ lastPost' = Cur(t)
          /\ NextWrite(t, "timeline")
       \/ /\ NextWrite(t, "markError")
          /\ UNCHANGED lastPost
    /\ UNCHANGED <<status, sends, queueVars, genVars, actVars, adminLog,
                   swallowed, timelineCache, postMemories>>

\* The homeTimeline a record was saved with: saveTweetToDb is called with [].
recordTimeline(id) == {}

\* cacheTweet, homeTimeline.push(tweet) and cacheTimeline(homeTimeline): the
\* timeline cache becomes the record's own list with the new post appended.
CacheTimeline(t) ==
    /\ tpc[t] = "timeline"
    /\ \/ /\ timelineCache' = recordTimeline(Cur(t)) \cup {Cur(t)}
          /\ NextWrite(t, "memory")
       \/ /\ NextWrite(t, "markError")
          /\ UNCHANGED timelineCache
    /\ UNCHANGED <<status, sends, queueVars, genVars, actVars, adminLog,
                   swallowed, lastPost, postMemories>>

\* ensureRoomExists, ensureParticipantInRoom and createMemory; then the post
\* is returned.
CreateMemory(t) ==
    /\ tpc[t] = "memory"
    /\ \/ /\ postMemories' = postMemories \cup {Cur(t)}
          /\ ToDelay(t)
       \/ /\ NextWrite(t, "markError")
          /\ UNCHANGED postMemories
    /\ UNCHANGED <<status, sends, queueVars, genVars, actVars, adminLog,
                   swallowed, lastPost, timelineCache>>

\* The catch around sendTweetAndUpdateCache: markTweetAsError, or that throws
\* too and the batch is left.
MarkError(t) ==
    /\ tpc[t] = "markError"
    /\ \/ /\ markTweetAsError(Cur(t))
          /\ ToDelay(t)
       \/ /\ tpc' = [tpc EXCEPT ![t] = "logerr"]
          /\ dispatched' = dispatched \cup {Cur(t)}
          /\ UNCHANGED <<status, tlist, tidx, tclaimed>>
    /\ UNCHANGED <<sends, queueVars, genVars, actVars, effectVars>>

\* The 60 s pause between two items is over.
Delay(t) ==
    /\ tpc[t] = "delay"
    /\ NextTweet(t)
    /\ UNCHANGED <<status, sends, queueVars, genVars, dispatched, actVars,
                   effectVars>>

\* The admin-log entry of a failed batch: its id is made of the time.
BatchLog(t) == {<<"batch", 0, t>>}

\* The outer catch: saveLog, whose throw is caught one level up; finally.
LogError(t) ==
    /\ tpc[t] = "logerr"
    /\ \/ /\ adminLog' = adminLog \cup BatchLog(t)
          /\ UNCHANGED swallowed
       \/ /\ swallowed' = swallowed \cup {<<t, 0>>}
          /\ UNCHANGED adminLog
    /\ TickEnds(t)
    /\ UNCHANGED <<status, sends, queueVars, genVars, dispatched, actVars,
                   lastPost, timelineCache, postMemories>>

----------------------------------------------------------------------------
\* The action-processing loop: processActionsLoop, processTweetActions and
\* handleTextOnlyReply.

ActOwner(a) == <<"act", a>>

\* fetchTimelineForActions: the working set, the same items in every pass.
homeTimeline == [i \in Items |-> i]

Item(a) == homeTimeline[aidx[a]]

Executed(a, x) ==
    /\ aexecuted' = [aexecuted EXCEPT ![a] = @ \cup {x}]

\* The pass has entered the branch of a flagged action.
Attempted(a, x) == aattempted' = [aattempted EXCEPT ![a] = @ \cup {x}]

\* The action has thrown.
Failed(a, x) == afailed' = [afailed EXCEPT ![a] = @ \cup {x}]

\* The position after action x, flagged or not.
After(x) ==
    CASE x = "like" -> "retweet"
      [] x = "retweet" -> "quote"
      [] x = "quote" -> "reply"
      [] x = "reply" -> "record"

\* A pass that ends without a finally block.
FinallyAbsent == UNCHANGED isProcessing

\* The finally block.
Finally == isProcessing' = FALSE

\* The flag test a call of processTweetActions starts with.
Busy == isProcessing

\* A null return from inside the try: the finally block clears the flag.
BusyReturnInsideTry(a) ==
    /\ apc' = [apc EXCEPT ![a] = "skipped"]
    /\ Finally

\* A call made while a pass is in progress: return null, before the try.
BusyReturn(a) ==
    /\ apc' = [apc EXCEPT ![a] = "skipped"]
    /\ UNCHANGED isProcessing

\* A loop that never looks at the stop flag.
LoopConditionAlways == TRUE

\* while (!this.stopProcessingActions)
LoopCondition == ~stopProcessingActions

\* processActionsLoop's loop top: the stop flag ends the loop, else
\* processTweetActions is called and either returns null or starts a pass.
CallProcessTweetActions(a) ==
    /\ apc[a] = "loop"
    /\ \/ /\ ~LoopCondition
          /\ apc' = [apc EXCEPT ![a] = "stopped"]
          /\ UNCHANGED isProcessing
       \/ /\ LoopCondition
          /\ Busy
          /\ BusyReturn(a)
       \/ /\ LoopCondition
          /\ ~Busy
          /\ isProcessing' = TRUE
          /\ apc' = [apc EXCEPT ![a] = "timeline"]
    /\ UNCHANGED <<status, sends, queueVars, genVars, tickVars,
                   stopProcessingActions, memories, aidx, adecided, aexecuted,
                   evaluated, aattempted, afailed, maction>>

\* A null result: the while loop goes round at once.
LoopAgain(a) ==
    /\ apc[a] = "skipped"
    /\ apc' = [apc EXCEPT ![a] = "loop"]
    /\ UNCHANGED <<status, sends, queueVars, genVars, tickVars, isProcessing,
                   stopProcessingActions, memories, aidx, adecided, aexecuted,
                   evaluated, aattempted, afailed, maction>>

\* The pass leaves its current item.
LeaveItem(a) ==
    /\ adecided' = [adecided EXCEPT ![a] = {}]
    /\ aexecuted' = [aexecuted EXCEPT ![a] = {}]
    /\ aattempted' = [aattempted EXCEPT ![a] = {}]
    /\ afailed' = [afailed EXCEPT ![a] = {}]

\* The pass is over (return or throw): finally, and back in the loop, which
\* waits (the interval, or 30 s after a throw) unless the result is falsy.
EndPass(a, waits) ==
    /\ Finally
    /\ apc' = [apc EXCEPT ![a] = IF waits THEN "wait" ELSE "loop"]
    /\ aidx' = [aidx EXCEPT ![a] = 0]

\* continue: the next item of the timeline, or return results.
NextItem(a) ==
    IF aidx[a] < Len(homeTimeline)
    THEN /\ apc' = [apc EXCEPT ![a] = "memory"]
         /\ aidx' = [aidx EXCEPT ![a] = @ + 1]
         /\ UNCHANGED isProcessing
    ELSE EndPass(a, TRUE)

\* ensureUserExists and fetchTimelineForActions: a throw is rethrown past the
\* finally to the loop's catch.
FetchTimeline(a) ==
    /\ apc[a] = "timeline"
    /\ \/ /\ apc' = [apc EXCEPT ![a] = "memory"]
          /\ aidx' = [aidx EXCEPT ![a] = 1]
          /\ UNCHANGED isProcessing
       \/ EndPass(a, TRUE)
    /\ UNCHANGED <<status, sends, queueVars, genVars, tickVars,
                   stopProcessingActions, memories, adecided, aexecuted,
                   evaluated, aattempted, afailed, maction>>

\* getMemoryById: an item with a record is skipped; a throw is caught per item.
MemoryCheck(a) ==
    /\ apc[a] = "memory"
    /\ \/ /\ Item(a) \in memories
          /\ NextItem(a)
       \/ /\ Item(a) \notin memories
          /\ apc' = [apc EXCEPT ![a] = "decide"]
          /\ UNCHANGED <<aidx, isProcessing>>
       \/ NextItem(a)
    /\ UNCHANGED <<status, sends, queueVars, genVars, tickVars,
                   stopProcessingActions, memories, adecided, aexecuted,
                   evaluated, aattempted, afailed, maction>>

\* composeState and generateTweetActions: no valid decision (or a throw)
\* skips the item, else the flagged actions are known.
Decide(a) ==
    /\ apc[a] = "decide"
    /\ \/ /\ NextItem(a)
          /\ UNCHANGED <<adecided, evaluated>>
       \/ \E d \in SUBSET ActionNames :
            /\ adecided' = [adecided EXCEPT ![a] = d]
            /\ evaluated' = evaluated \cup {Item(a)}
            /\ apc' = [apc EXCEPT ![a] = "like"]
            /\ UNCHANGED <<aidx, isProcessing>>
    /\ UNCHANGED <<status, sends, queueVars, genVars, tickVars,
                   stopProcessingActions, memories, aexecuted, aattempted, afailed, maction>>

\* An action that is not flagged is passed over.
SkipAction(a, x) ==
    /\ apc[a] = x
    /\ x \notin adecided[a]
    /\ apc' = [apc EXCEPT ![a] = After(x)]
    /\ UNCHANGED <<status, sends, queueVars, genVars, tickVars, isProcessing,
                   stopProcessingActions, memories, aidx, adecided, aexecuted,
                   evaluated, aattempted, afailed, maction>>

\* How a like or a retweet reaches the network: twitterClient.likeTweet and
\* twitterClient.retweet are called directly.
DirectCall(a, x) ==
    /\ apc' = [apc EXCEPT ![a] = IF x = "like" THEN "liking" ELSE "retweeting"]
    /\ UNCHANGED queueVars

\* A flagged like or retweet: the call is made.
CallDirect(a, x) ==
    /\ x \in {"like", "retweet"}
    /\ apc[a] = x
    /\ x \in adecided[a]
    /\ DirectCall(a, x)
    /\ Attempted(a, x)
    /\ UNCHANGED <<status, sends, genVars, tickVars, isProcessing,
                   stopProcessingActions, memories, aidx, adecided, aexecuted,
                   evaluated, afailed, maction>>

\* An action without a catch of its own: its throw reaches the catch of the
\* item, which goes on with the next item.
CaughtByItem(a, x) == NextItem(a)

\* The catch of one action: it logs, and the pass goes on with the next
\* action of the item.
Caught(a, x) ==
    /\ apc' = [apc EXCEPT ![a] = After(x)]
    /\ UNCHANGED <<aidx, isProcessing>>

\* The call returns (the action is pushed to executedActions) or throws (the
\* catch logs).
DirectReturn(a, x) ==
    /\ x \in {"like", "retweet"}
    /\ apc[a] = (IF x = "like" THEN "liking" ELSE "retweeting")
    /\ \/ /\ Executed(a, x)
          /\ apc' = [apc EXCEPT ![a] = After(x)]
          /\ UNCHANGED <<aidx, isProcessing, afailed>>
       \/ /\ Caught(a, x)
          /\ Failed(a, x)
          /\ UNCHANGED aexecuted
    /\ UNCHANGED <<status, sends, queueVars, genVars, tickVars,
                   stopProcessingActions, memories, adecided, evaluated,
                   aattempted, maction>>

\* What empty generated content does: in the quote branch, return leaves
\* processTweetActions; in handleTextOnlyReply, return leaves the helper.
EmptyContent(a, x) ==
    IF x = "quote"
    THEN /\ EndPass(a, FALSE)
         /\ LeaveItem(a)
    ELSE /\ apc' = [apc EXCEPT ![a] = After(x)]
         /\ Attempted(a, x)
         /\ UNCHANGED <<isProcessing, aidx, adecided, aexecuted, afailed>>

\* A flagged quote or reply: the context is built and the content generated.
\* A throw is caught and the action given up; empty content returns; usable
\* content is submitted to the request queue.
GenerateContent(a, x) ==
    /\ x \in {"quote", "reply"}
    /\ apc[a] = x
    /\ x \in adecided[a]
    /\ \/ /\ Caught(a, x)
          /\ Attempted(a, x)
          /\ Failed(a, x)
          /\ UNCHANGED <<adecided, aexecuted, queueVars>>
       \/ /\ EmptyContent(a, x)
          /\ UNCHANGED queueVars
       \/ /\ RequestQueueAdd(ActOwner(a), x, Item(a))
          /\ apc' = [apc EXCEPT ![a] = IF x = "quote" THEN "quoting" ELSE "replying"]
          /\ Attempted(a, x)
          /\ UNCHANGED <<isProcessing, aidx, adecided, aexecuted, afailed>>
    /\ UNCHANGED <<status, sends, genVars, tickVars, stopProcessingActions,
                   memories, evaluated, maction>>

\* A quote or reply that counts as executed whatever the response carries.
ContentReturnAnyBody(a, x) ==
    /\ x \in {"quote", "reply"}
    /\ apc[a] = (IF x = "quote" THEN "quoting" ELSE "replying")
    /\ resolved[ActOwner(a)] # NoResult
    /\ LET outcome == resolved[ActOwner(a)].outcome IN
        \/ /\ outcome \in {"ok", "bad"}
           /\ Executed(a, x)
           /\ apc' = [apc EXCEPT ![a] = After(x)]
           /\ UNCHANGED <<aidx, isProcessing, afailed>>
        \/ /\ outcome = "throw"
           /\ Caught(a, x)
           /\ Failed(a, x)
           /\ UNCHANGED aexecuted
    /\ TakeResult(ActOwner(a))
    /\ UNCHANGED <<status, sends, genVars, tickVars, stopProcessingActions,
                   memories, adecided, evaluated, aattempted, maction>>

\* The queued quote or reply has settled: it counts as executed when the
\* response carries the success path; a rejection is caught like any throw.
ContentReturn(a, x) ==
    /\ x \in {"quote", "reply"}
    /\ apc[a] = (IF x = "quote" THEN "quoting" ELSE "replying")
    /\ resolved[ActOwner(a)] # NoResult
    /\ LET outcome == resolved[ActOwner(a)].outcome IN
        \/ /\ outcome = "ok"
           /\ Executed(a, x)
           /\ apc' = [apc EXCEPT ![a] = After(x)]
           /\ UNCHANGED <<aidx, isProcessing, afailed>>
        \/ /\ outcome = "bad"
           /\ apc' = [apc EXCEPT ![a] = After(x)]
           /\ UNCHANGED <<aidx, isProcessing, aexecuted, afailed>>
        \/ /\ outcome = "throw"
           /\ Caught(a, x)
           /\ Failed(a, x)
           /\ UNCHANGED aexecuted
    /\ TakeResult(ActOwner(a))
    /\ UNCHANGED <<status, sends, genVars, tickVars, stopProcessingActions,
                   memories, adecided, evaluated, aattempted, maction>>

\* ensureRoomExists, ensureUserExists, ensureParticipantInRoom, createMemory
\* and results.push: the record is written with the executed actions, or a
\* throw is caught per item.
RecordItem(a) ==
    /\ apc[a] = "record"
    /\ \/ /\ memories' = memories \cup {Item(a)}
          /\ maction' = [maction EXCEPT ![Item(a)] = aexecuted[a]]
       \/ UNCHANGED <<memories, maction>>
    /\ NextItem(a)
    /\ LeaveItem(a)
    /\ UNCHANGED <<status, sends, queueVars, genVars, tickVars,
                   stopProcessingActions, evaluated>>

\* The loop's wait (the interval, or the 30 s fallback) is over.
WaitOver(a) ==
    /\ apc[a] = "wait"
    /\ apc' = [apc EXCEPT ![a] = "loop"]
    /\ UNCHANGED <<status, sends, queueVars, genVars, tickVars, isProcessing,
                   stopProcessingActions, memories, aidx, adecided, aexecuted,
                   evaluated, aattempted, afailed, maction>>

\* stop().
Stop ==
    /\ gpc[Main] = "launched"
    /\ ~stopProcessingActions
    /\ stopProcessingActions' = TRUE
    /\ UNCHANGED <<status, sends, queueVars, genVars, tickVars, isProcessing,
                   memories, apc, aidx, adecided, aexecuted, evaluated, aattempted, afailed, maction>>

----------------------------------------------------------------------------
\* The state after construction, and the specifications.

\* No function is under study, and saveTweetToDb has not been called.
NoCall == [fn |-> "none"]

NoReturn == [done |-> FALSE]

\* generateTrendingConnections has not been called.
NoTrend == [pc |-> "idle"]

NoCalls ==
    /\ call = NoCall
    /\ ret = NoReturn
    /\ now = 0
    /\ saved = <<>>
    /\ trend = NoTrend

\* The loops of the client after construction.
InitLoops ==
    /\ sends = [i \in Ids |-> [gen |-> 0, tick |-> 0]]
    /\ queue = <<>>
    /\ running = {}
    /\ resolved = [o \in Owners |-> NoResult]
    /\ order = <<>>
    /\ postImmediately \in
        {PostImmediately(arg, setting) : arg \in BOOLEAN, setting \in FlagSettings}
    /\ gpc = [r \in GenRunners |-> IF r = Main THEN "init" ELSE "off"]
    /\ gid = [r \in GenRunners |-> 0]
    /\ ginterval = [g \in Chains |-> 0]
    /\ gcontent = [r \in GenRunners |-> "none"]
    /\ tpc = [t \in Ticks |-> "off"]
    /\ tlist = [t \in Ticks |-> <<>>]
    /\ tidx = [t \in Ticks |-> 0]
    /\ tclaimed = [t \in Ticks |-> FALSE]
    /\ dispatched = {}
    /\ adminLog = {}
    /\ swallowed = {}
    /\ lastPost = 0
    /\ timelineCache = {}
    /\ postMemories = {}
    /\ isProcessing = FALSE
    /\ stopProcessingActions = FALSE
    /\ memories = {}
    /\ apc = [a \in Callers |-> "off"]
    /\ aidx = [a \in Callers |-> 0]
    /\ adecided = [a \in Callers |-> {}]
    /\ aexecuted = [a \in Callers |-> {}]
    /\ evaluated = {}
    /\ aattempted = [a \in Callers |-> {}]
    /\ afailed = [a \in Callers |-> {}]
    /\ maction = [i \in Items |-> {}]

\* Everything but the store of posts and the agent's settings, which outlive
\* the process.
InitClient == InitLoops /\ NoCalls

\* A first start: the store is empty and tweet_interval was never created.
Init ==
    /\ status = [i \in Ids |-> "none"]
    /\ tweetInterval = Missing
    /\ InitClient

\* A restart: the store holds MaxStored records of earlier runs, each in any
\* status.
InitRestart ==
    /\ status \in [Ids -> {"none", "pending", "approved", "sent", "error"}]
    /\ \A id \in Ids : status[id] = "none" <=> id > MaxStored
    /\ tweetInterval = Present(DefaultInterval)
    /\ InitClient

StartActions == Start \/ Launch

QueueActions == QueueStart \/ QueueFinish

GenActions ==
    \/ \E g \in Chains :
        GetPostInterval(g) \/ UpdateAgentSetting(g) \/ TimerFire(g)
    \/ \E r \in GenRunners :
        Generate(r) \/ SaveTweetToDb(r) \/ GenSubmit(r) \/ GenSendReturn(r)

DispatchActions ==
    \/ \E id \in Ids : Approve(id)
    \/ \E t \in Ticks :
        \/ TickFire(t) \/ Fetch(t) \/ DupCheck(t) \/ Claim(t) \/ TickSubmit(t)
        \/ TickSendReturn(t) \/ BadStatus(t) \/ BadLog(t) \/ OkStatus(t)
        \/ Cache(t) \/ CacheTimeline(t) \/ CreateMemory(t)
        \/ MarkError(t) \/ Delay(t) \/ LogError(t)

ProcessActions ==
    \/ Stop
    \/ \E a \in Callers :
        \/ CallProcessTweetActions(a) \/ LoopAgain(a) \/ FetchTimeline(a)
        \/ MemoryCheck(a) \/ Decide(a) \/ RecordItem(a) \/ WaitOver(a)
        \/ \E x \in ActionNames :
            \/ SkipAction(a, x) \/ CallDirect(a, x) \/ DirectReturn(a, x)
            \/ GenerateContent(a, x) \/ ContentReturn(a, x)

\* The whole client.
Next ==
    StartActions \/ QueueActions \/ GenActions \/ DispatchActions \/ ProcessActions

Spec == Init /\ [][Next]_vars

\* A start without the immediate generation.
InitQuiet == Init /\ ~postImmediately

InitRestartQuiet == InitRestart /\ ~postImmediately

\* The generation side alone: nothing is dispatched.
NextGen == StartActions \/ QueueActions \/ GenActions

SpecGen == Init /\ [][NextGen]_vars

\* The dispatch side alone, after a restart, in the time before the first
\* generation timer fires.
NextDispatch == Start \/ QueueActions \/ DispatchActions

SpecDispatch == InitRestartQuiet /\ [][NextDispatch]_vars

\* A store in which every id has a record.
InitFull ==
    /\ status \in [Ids -> {"pending", "approved", "sent", "error"}]
    /\ tweetInterval = Present(DefaultInterval)
    /\ InitClient
    /\ ~postImmediately

BatchActions ==
    \/ \E id \in Ids : Approve(id)
    \/ \E t \in Ticks :
        \/ Fetch(t) \/ DupCheck(t) \/ Claim(t) \/ TickSubmit(t)
        \/ TickSendReturn(t) \/ BadStatus(t) \/ BadLog(t) \/ OkStatus(t)
        \/ Cache(t) \/ CacheTimeline(t) \/ CreateMemory(t)
        \/ MarkError(t) \/ Delay(t) \/ LogError(t)

\* One tick of the dispatch loop over a full store, in the five minutes
\* before the next tick.
NextBatch == Start \/ QueueActions \/ BatchActions

SpecBatch == InitFull /\ [][NextBatch]_vars

\* The action processor alone, in the time before the first generation timer
\* fires and with nothing approved.
NextProcess == Start \/ QueueActions \/ ProcessActions

SpecProcess == InitQuiet /\ [][NextProcess]_vars

\* The steps of one generation chain, one generation run, one tick and one
\* caller of processTweetActions.
ChainStep(g) == GetPostInterval(g) \/ UpdateAgentSetting(g) \/ TimerFire(g)

RunnerStep(r) ==
    Generate(r) \/ SaveTweetToDb(r) \/ GenSubmit(r) \/ GenSendReturn(r)

TickStep(t) ==
    \/ TickFire(t) \/ Fetch(t) \/ DupCheck(t) \/ Claim(t) \/ TickSubmit(t)
    \/ TickSendReturn(t) \/ BadStatus(t) \/ BadLog(t) \/ OkStatus(t)
    \/ Cache(t) \/ CacheTimeline(t) \/ CreateMemory(t)
    \/ MarkError(t) \/ Delay(t) \/ LogError(t)

CallerStep(a) ==
    \/ CallProcessTweetActions(a) \/ LoopAgain(a) \/ FetchTimeline(a)
    \/ MemoryCheck(a) \/ Decide(a) \/ RecordItem(a) \/ WaitOver(a)
    \/ \E x \in ActionNames :
        \/ SkipAction(a, x) \/ CallDirect(a, x) \/ DirectReturn(a, x)
        \/ GenerateContent(a, x) \/ ContentReturn(a, x)

\* A client some time after start(): the store holds `store`, the chains of
\* the generation loop are at `chains`, the dispatch ticks at `ticks`, the
\* callers of the action loop at `callers`, tweet_interval is `setting`, and
\* nothing is in flight.
Running(store, setting, chains, ticks, callers, stop) ==
    /\ status = store
    /\ tweetInterval = setting
    /\ ginterval = [g \in Chains |->
                     IF chains[g] = "timer"
                     THEN Minutes(parseInt(OrDefaultInterval(setting))) ELSE 0]
    /\ gcontent = [r \in GenRunners |-> "none"]
    /\ NoCalls
    /\ sends = [i \in Ids |-> [gen |-> 0, tick |-> 0]]
    /\ queue = <<>>
    /\ running = {}
    /\ resolved = [o \in Owners |-> NoResult]
    /\ order = <<>>
    /\ postImmediately = FALSE
    /\ gpc = chains
    /\ gid = [r \in GenRunners |-> 0]
    /\ tpc = ticks
    /\ tlist = [t \in Ticks |-> <<>>]
    /\ tidx = [t \in Ticks |-> 0]
    /\ tclaimed = [t \in Ticks |-> FALSE]
    /\ dispatched = {}
    /\ adminLog = {}
    /\ swallowed = {}
    /\ lastPost = 0
    /\ timelineCache = {}
    /\ postMemories = {}
    /\ isProcessing = FALSE
    /\ stopProcessingActions = stop
    /\ memories = {}
    /\ apc = [a \in Callers |-> callers]
    /\ aidx = [a \in Callers |-> 0]
    /\ adecided = [a \in Callers |-> {}]
    /\ aexecuted = [a \in Callers |-> {}]
    /\ evaluated = {}
    /\ aattempted = [a \in Callers |-> {}]
    /\ afailed = [a \in Callers |-> {}]
    /\ maction = [i \in Items |-> {}]

\* Every chain of the generation loop has set its timer.
TimersSet == [r \in GenRunners |-> IF r = Main THEN "launched" ELSE "timer"]

\* The ticks have all run and found nothing to dispatch.
TicksDone == [t \in Ticks |-> "done"]

\* start() has just run the first tick.
FirstTick == [t \in Ticks |-> IF t = 1 THEN "fetch" ELSE "off"]

\* Three situations of a started client, one per loop, the other two loops
\* being at rest in each:
\*  - the generation loop at work on an empty store, the ticks having found
\*    nothing and stop() having ended the action loop;
\*  - the dispatch loop at work after a restart on a full store of sent
\*    records but one, which awaits approval or dispatch (no generation
\*    timer fires: there is no id left), stop() having ended the action loop;
\*  - the action loop at work after a restart on a full store of sent
\*    records.
InitLive ==
    \/ Running([i \in Ids |-> "none"], Missing, LaunchChains, TicksDone, "stopped", TRUE)
    \/ \E s \in {"pending", "approved"} :
        Running([i \in Ids |-> IF i = 1 THEN s ELSE "sent"],
                Present(DefaultInterval), TimersSet, FirstTick, "stopped", TRUE)
    \/ Running([i \in Ids |-> "sent"], Present(DefaultInterval), TimersSet, TicksDone, "loop", FALSE)

NextLive == QueueActions \/ GenActions \/ DispatchActions \/ ProcessActions

\* Every timer fires, every awaited call returns or throws, the request
\* queue keeps working.  Nothing obliges the operator to approve, nor anyone
\* to call stop().
Fairness ==
    /\ WF_vars(QueueActions)
    /\ \A g \in Chains : WF_vars(ChainStep(g) \/ RunnerStep(g))
    /\ \A t \in Ticks : WF_vars(TickStep(t))
    /\ \A a \in Callers : WF_vars(CallerStep(a))

SpecLive == InitLive /\ [][NextLive]_vars /\ Fairness

----------------------------------------------------------------------------
\* The properties.

QueuedTasks == {queue[i] : i \in 1..Len(queue)}

\* A tick is past the duplicate check of its current item.
Dispatching(t) ==
    tpc[t] \in {"claim", "enqueue", "awaitSend", "badStatus", "badLog",
                "okStatus", "cache", "timeline", "memory", "markError"}

\* C1: a dispatch of an id whose earlier dispatch (by another pass holding the
\* same id) is over is a no-op: its duplicate check never lets it go on to
\* the claim and the send.
C1_SecondDispatchIsNoOp ==
    [][\A t \in Ticks :
        (tpc[t] = "dup" /\ Cur(t) \in dispatched) => ~Dispatching(t)']_vars

\* C2: however two overlapping ticks interleave, the dispatch loop sends an
\* item to the network at most once.
C2_AtMostOneDispatchSend == \A id \in Ids : sends[id].tick <= 1

\* C3: no post is sent to the network while its record is still pending.
C3_NoSendWhilePending ==
    \A task \in running : task.kind = "post" => status[task.ref] # "pending"

C5_ClaimBeforeSend ==
    /\ \A task \in QueuedTasks \cup running :
        task.owner[1] = "tick" => tclaimed[task.owner[2]]
    /\ \A t \in Ticks : tpc[t] = "awaitSend" => tclaimed[t]

C5_Witness ==
    \E task \in running : task.owner[1] = "tick" /\ status[task.ref] = "sent"

\* The callers with a write to the social API in flight outside the queue.
DirectWrites == {a \in Callers : apc[a] \in {"liking", "retweeting"}}

\* C6: every write in flight is a task of the request queue, and at most one
\* write is in flight.
C6_WritesThroughQueue ==
    /\ DirectWrites = {}
    /\ Cardinality(running) + Cardinality(DirectWrites) <= 1

\* C7: the queue executes at most one task at a time, starts the tasks in
\* submission order, and settles each caller with the result (or the throw)
\* of its own task.
C7_QueueContract ==
    /\ Cardinality(running) <= 1
    /\ order = [i \in 1..Len(queue) |-> queue[i].owner]
    /\ \A o \in Owners :
        resolved[o] # NoResult =>
            /\ resolved[o].owner = o
            /\ \A task \in QueuedTasks \cup running : task.owner # o

C7_Witness ==
    \E o \in Owners :
        /\ resolved[o].outcome = "throw"
        /\ \E task \in running : task.owner # o

\* C8: at most one generation timer is pending.
C8_OneGenerationTimer == Cardinality({g \in Chains : gpc[g] = "timer"}) <= 1

\* A caller is inside a pass of processTweetActions.
InPass(a) == apc[a] \notin {"off", "loop", "skipped", "wait", "stopped"}

\* C9: at most one pass is active, the flag stays set while it is, and a
\* caller turned away holds no item and no action.
C9_OnePassAtATime ==
    /\ Cardinality({a \in Callers : InPass(a)}) <= 1
    /\ \A a \in Callers : InPass(a) => isProcessing
    /\ \A a \in Callers :
        apc[a] = "skipped" =>
            aidx[a] = 0 /\ adecided[a] = {} /\ aexecuted[a] = {}

C9_Witness ==
    \E a, b \in Callers : InPass(a) /\ apc[b] = "skipped" /\ isProcessing

\* C10: a pass never evaluates an item that an earlier pass has evaluated: it
\* finds the record and skips the item.
C10_SecondPassSkips ==
    \A a \in Callers : apc[a] = "decide" => Item(a) \notin evaluated

\* Action x of caller a throws in this step.
ActionThrows(a, x) == x \in afailed'[a] /\ x \notin afailed[a]

\* C11: the step in which an action of an item throws goes on with the next
\* action of the same item and pushes nothing; when the item's record is
\* due every flagged action has been attempted, and the record lists the
\* executed actions, none of which has failed.
C11_FailureIsolated ==
    /\ [][\A a \in Callers, x \in ActionNames :
            ActionThrows(a, x) =>
                /\ apc'[a] = After(x)
                /\ aidx'[a] = aidx[a]
                /\ aexecuted'[a] = aexecuted[a]]_vars
    /\ [](\A a \in Callers :
            apc[a] = "record" =>
                /\ adecided[a] \subseteq aattempted[a]
                /\ afailed[a] \cap aexecuted[a] = {})
    /\ [][\A a \in Callers :
            (apc[a] = "record" /\ memories' # memories) =>
                /\ maction'[Item(a)] = aexecuted[a]
                /\ maction'[Item(a)] \cap afailed[a] = {}]_vars

C11_Witness ==
    \E a \in Callers :
        /\ apc[a] = "record"
        /\ "reply" \in afailed[a]
        /\ {"like", "retweet"} \subseteq aexecuted[a]

\* C12: whatever the content generation of a quote or a reply yields, empty
\* content included, the pass stays on the item: it goes on to the next
\* action, the record and the remaining items.
C12_EmptyContentAbandonsOneAction ==
    [][\A a \in Callers :
        apc[a] \in {"quote", "reply"} =>
            InPass(a)' /\ aidx'[a] = aidx[a]]_vars

\* A caller holds a valid decision for its current item.
Deciding(a) ==
    apc[a] \in {"like", "liking", "retweet", "retweeting", "quote", "quoting",
                "reply", "replying", "record"}

\* C13: a pass leaves an item it holds a valid decision for only with the
\* item's memory record written.
C13_RecordWrittenForDecidedItem ==
    [][\A a \in Callers :
        (Deciding(a) /\ ~Deciding(a)') => Item(a) \in memories']_vars

\* C14: whenever a pass ends, by return or by throw, the loop waits before
\* it starts the next one.
C14_WaitBetweenPasses ==
    [][\A a \in Callers : (InPass(a) /\ ~InPass(a)') => apc'[a] = "wait"]_vars

\* C15: once the stop flag is set no pass starts; a loop exits only at its
\* top, so a pass in progress goes on; stop() changes the flag and nothing
\* else, and the next step of the generation and dispatch loops stays
\* enabled.
C15_StopEndsLoopAtTop ==
    /\ [][\A a \in Callers :
            (stopProcessingActions /\ ~InPass(a)) => ~InPass(a)']_vars
    /\ [][\A a \in Callers :
            (apc'[a] = "stopped" /\ apc[a] # "stopped") =>
                apc[a] = "loop" /\ stopProcessingActions]_vars
    /\ [][stopProcessingActions' # stopProcessingActions =>
            UNCHANGED <<status, sends, queueVars, genVars, tickVars, apc, aidx,
                        isProcessing>>]_vars
    /\ [](stopProcessingActions =>
            /\ \A g \in Chains : gpc[g] = "interval" => ENABLED GetPostInterval(g)
            /\ \A t \in Ticks : tpc[t] = "fetch" => ENABLED Fetch(t))

C15_Witness ==
    /\ stopProcessingActions
    /\ \E a, b \in Callers : InPass(a) /\ aidx[a] > 0 /\ apc[b] = "stopped"

C18_BatchSurvivesItemError ==
    [][\A t \in Ticks :
        (/\ tidx[t] >= 1
         /\ tpc[t] \notin {"logerr", "done"}
         /\ tpc'[t] \in {"logerr", "done"}) => tidx[t] = Len(tlist[t])]_vars

\* C19: the step in which a best-effort write throws takes the tick to the
\* place it would have reached without the throw (the pause after the item,
\* the end of the tick) and changes no record; the timer of the next tick
\* stays armed.
C19_LogFailureSwallowed ==
    /\ [][\A t \in Ticks :
            (\E e \in swallowed' \ swallowed : e[1] = t) =>
                /\ tpc'[t] \in {"delay", "done"}
                /\ status' = status]_vars
    /\ [](\A t \in Ticks :
            (t > 1 /\ tpc[t] = "off" /\ tpc[t - 1] # "off") => ENABLED TickFire(t))

C19_Witness ==
    \E t \in Ticks :
        /\ tidx[t] > 1
        /\ tpc[t] = "enqueue"
        /\ <<t, tlist[t][tidx[t] - 1]>> \in swallowed

\* A tick is handling a good response.
OkPath(t) == tpc[t] \in {"okStatus", "cache", "timeline", "memory"}

\* C20: when the handling of a good response is over, the record is sent,
\* the last-post cache names the new post, the timeline cache holds it and
\* its memory record exists.
C20_SuccessEffects ==
    [][\A t \in Ticks :
        (OkPath(t) /\ ~OkPath(t)') =>
            /\ status'[Cur(t)] = "sent"
            /\ lastPost' = Cur(t)
            /\ Cur(t) \in timelineCache'
            /\ Cur(t) \in postMemories']_vars

\* C16: no failure ends a loop.  Whatever the calls of an iteration do
\* (succeed, come back unusable, throw), every generation chain sets its next
\* timer again and again, every dispatch tick that is due fires and runs to
\* its end, and the action loop comes back to the top of its while loop again
\* and again (or has ended there, on stop()).
C16_LoopsKeepIterating ==
    /\ \A g \in Chains : []<>(gpc[g] = "timer")
    /\ \A t \in Ticks : []<>(tpc[t] = "done")
    /\ \A a \in Callers : []<>(apc[a] \in {"loop", "stopped"})

\* A tick's batch has failed and been logged, and the next tick has run.
C16_Witness ==
    \E t \in Ticks :
        /\ t > 1
        /\ BatchLog(t - 1) \subseteq adminLog
        /\ tpc[t] = "done"

\* The values of tweet_interval the model draws from: never created, empty,
\* the default, and another number of minutes.
IntervalSettings ==
    {Missing, Present(<<>>), Present(DefaultInterval), Present(<<"4", "5">>)}

\* A first start of an agent whose tweet_interval holds any of these values.
InitConfigured ==
    /\ status = [i \in Ids |-> "none"]
    /\ tweetInterval \in IntervalSettings
    /\ InitClient

\* The generation side alone, for every value of tweet_interval.
SpecInterval == InitConfigured /\ [][NextGen]_vars

\* C21: getPostInterval leaves a setting that is present as it is and returns
\* its value in minutes; only a missing setting is created, with the value
\* "30", and 30 minutes is returned then.
C21_IntervalIdempotent ==
    [][\A g \in Chains :
        /\ (gpc[g] = "interval" /\ gpc'[g] # "interval" /\ tweetInterval.present) =>
              /\ tweetInterval' = tweetInterval
              /\ gpc'[g] = "timer"
              /\ ginterval'[g] = Minutes(parseInt(tweetInterval.value))
        /\ (gpc[g] = "interval" /\ gpc'[g] = "create") => ~tweetInterval.present
        /\ (gpc[g] = "create" /\ gpc'[g] # "create") =>
              /\ tweetInterval' = Present(DefaultInterval)
              /\ ginterval'[g] = Minutes(30)]_vars

\* start() is awaiting its own generateNewTweet().
MainGenerating == gpc[Main] \in {"generate", "save", "enqueue", "awaitSend"}

\* C22: the flag is the argument unless the POST_IMMEDIATELY setting is
\* non-empty, which then decides.  With the flag set, start() runs one
\* generation, once, and launches the generation loop only when it has
\* returned; without it start() runs none.  A chain of the loop generates
\* only when its timer has fired.
C22_ImmediateGeneration ==
    /\ \A arg \in BOOLEAN :
        /\ PostImmediately(arg, Missing) = arg
        /\ PostImmediately(arg, Present(<<>>)) = arg
        /\ PostImmediately(arg, Present(<<"t", "r", "u", "e">>)) = TRUE
        /\ PostImmediately(arg, Present(<<"1">>)) = TRUE
        /\ PostImmediately(arg, Present(<<"f", "a", "l", "s", "e">>)) = FALSE
        /\ PostImmediately(arg, Present(<<"0">>)) = FALSE
    /\ [](/\ (\E g \in Chains : gpc[g] # "off") => gpc[Main] = "launched"
          /\ ~postImmediately => (~MainGenerating /\ gpc[Main] # "launching"))
    /\ [][/\ (postImmediately /\ gpc[Main] = "init" /\ gpc'[Main] # "init") =>
               gpc'[Main] = "generate"
          /\ (gpc'[Main] = "generate" /\ gpc[Main] # "generate") =>
               gpc[Main] = "init"
          /\ (postImmediately /\ gpc'[Main] = "launched" /\ gpc[Main] # "launched") =>
               gpc[Main] = "launching"
          /\ \A g \in Chains :
               (gpc'[g] = "generate" /\ gpc[g] # "generate") => gpc[g] = "timer"]_vars

\* The flag was set, start()'s generation produced a text and returned, and
\* a chain of the loop is in its wait.
C22_Witness ==
    /\ postImmediately
    /\ gcontent[Main] = "text"
    /\ gpc[Main] = "launched"
    /\ \E g \in Chains : gpc[g] = "timer"

\* A tick is inside its for loop.
InBatch(t) == tpc[t] \notin {"off", "fetch", "done", "logerr"}

\* C23: a tick goes through the list it fetched item by item, in the order
\* of the list; it sends one item at a time, the item it is at, after having
\* claimed it; and it leaves an item it has sent for the next one only when
\* the 60 s pause is over.
C23_SequentialDispatch ==
    /\ [](\A t \in Ticks :
            /\ InBatch(t) => tidx[t] \in 1..Len(tlist[t])
            /\ tpc[t] \in {"enqueue", "awaitSend"} => tclaimed[t]
            /\ \A k \in DOMAIN queue :
                 queue[k].owner = TickOwner(t) =>
                    /\ tpc[t] = "awaitSend"
                    /\ queue[k].ref = Cur(t)
                    /\ \A j \in DOMAIN queue :
                         queue[j].owner = TickOwner(t) => j = k
                    /\ \A x \in running : x.owner # TickOwner(t)
            /\ \A x \in running :
                 x.owner = TickOwner(t) =>
                    /\ tpc[t] = "awaitSend"
                    /\ x.ref = Cur(t))
    /\ [][\A t \in Ticks :
            /\ (InBatch(t) /\ InBatch(t)') =>
                 /\ tlist'[t] = tlist[t]
                 /\ tidx'[t] \in {tidx[t], tidx[t] + 1}
            /\ (InBatch(t) /\ tclaimed[t] /\ tidx'[t] = tidx[t] + 1) =>
                 tpc[t] = "delay"]_vars

\* A tick has sent the first item of its list and is sending the second.
C23_Witness ==
    \E t \in Ticks :
        /\ tidx[t] = 2
        /\ tpc[t] = "awaitSend"
        /\ sends[tlist[t][1]].tick > 0

-----------------------------------------------------------------------------
\* The functions of the client taken one at a time: a client that has been
\* constructed and not started, the arguments of one call in `call`, its
\* result in `ret`.

clientVars ==
    <<status, sends, queueVars, postImmediately, gpc, gid, intervalVars,
      gcontent, tickVars, actVars>>

Constructed ==
    /\ status = [i \in Ids |-> "none"]
    /\ tweetInterval = Missing
    /\ InitLoops
    /\ ~postImmediately

Returned(v) == [done |-> TRUE, value |-> v]

\* The function under study returns v.
Return(v) ==
    /\ ~ret.done
    /\ ret' = Returned(v)
    /\ UNCHANGED <<clientVars, call, now, saved, trend>>

-----------------------------------------------------------------------------
\* randomFutureDate.

\* No pending record: lastPost[0] is undefined.
NoDate == 0 - 1

\* lastPost[0]?.createdAt ?? new Date().
lastPostTimestamp(c) == IF c.last = NoDate THEN c.clock ELSE c.last

minMinutes(c) == OrDefault(parseIntSetting(c.min), 12)

maxMinutes(c) == OrDefault(parseIntSetting(c.max), 24)

\* A range one minute too wide.
RandomRangeWide(c) == maxMinutes(c) - minMinutes(c) + 122

\* maxMinutes - minMinutes + 120.
RandomRange(c) == maxMinutes(c) - minMinutes(c) + 120

\* Math.floor(Math.random() * range): Math.random() is in [0, 1), so every
\* whole number from 0 up to range - 1 can come out, and for a range below 0
\* every one from range up to 0.
FloorRandom(range) == IF range > 0 THEN 0..(range - 1) ELSE range..0

\* draw is Math.floor(Math.random() * range).
randomMinutes(c, draw) == draw + minMinutes(c)

randomFutureDate(c, draw) ==
    lastPostTimestamp(c) + randomMinutes(c, draw) * 60 * 1000

\* The values of POST_INTERVAL_MIN and POST_INTERVAL_MAX the model draws
\* from: unset, not a number, zero, and numbers of minutes.
MinuteSettings ==
    {Missing, Present(<<"x">>), Present(<<"0">>), Present(<<"5">>),
     Present(<<"3", "0">>), Present(<<"2", "0", "0">>)}

\* The creation time of the first pending record, if there is one, and the
\* clock, in ms.
LastDates == {NoDate, 0, 90000}

ClockTimes == {0, 1000}

ScheduleCalls ==
    [fn : {"randomFutureDate"}, min : MinuteSettings, max : MinuteSettings,
     last : LastDates, clock : ClockTimes]

InitSchedule ==
    /\ Constructed
    /\ call \in ScheduleCalls
    /\ ret = NoReturn
    /\ now = 0
    /\ saved = <<>>
    /\ trend = NoTrend

RandomFutureDate ==
    /\ call.fn = "randomFutureDate"
    /\ \E draw \in FloorRandom(RandomRange(call)) :
        Return(randomFutureDate(call, draw))

SpecSchedule == InitSchedule /\ [][RandomFutureDate]_vars

-----------------------------------------------------------------------------
\* truncateToCompleteSentence and trimTweetLength.

\* The longest text and the largest limit of the model; the limit is 240 and
\* 280 in the client.
MaxLen == 6

MaxLimit == 4

Ellipsis == <<".", ".", ".">>

truncateToCompleteSentence(text, maxTweetLength) ==
    IF Len(text) <= maxTweetLength THEN text
    ELSE LET truncatedAtPeriod ==
                 Slice(text, LastIndexOf(text, ".", maxTweetLength) + 1)
             truncatedAtSpace ==
                 Slice(text, LastIndexOf(text, " ", maxTweetLength))
         IN IF Len(Trim(truncatedAtPeriod)) > 0 THEN Trim(truncatedAtPeriod)
            ELSE IF Len(Trim(truncatedAtSpace)) > 0
                 THEN Trim(truncatedAtSpace) \o Ellipsis
                 ELSE Trim(Slice(text, maxTweetLength - 3)) \o Ellipsis

trimTweetLength(text, maxLength) ==
    IF Len(text) <= maxLength THEN text
    ELSE LET head == Slice(text, maxLength)
             lastSentence == LastIndexOf(head, ".", Len(head))
         IN IF lastSentence > 0 THEN Trim(Slice(text, lastSentence + 1))
            ELSE Trim(Slice(text, LastIndexOf(text, " ", maxLength - 3)))
                     \o Ellipsis

\* The characters of the texts: a letter, a period, a space.
Letters == {"a", ".", " "}

Texts == UNION {[1..n -> Letters] : n \in 0..MaxLen}

Limits == 3..MaxLimit

InitTruncate ==
    /\ Constructed
    /\ call \in [fn : {"truncateToCompleteSentence", "trimTweetLength"},
                  text : Texts, max : Limits]
    /\ ret = NoReturn
    /\ now = 0
    /\ saved = <<>>
    /\ trend = NoTrend

TruncateToCompleteSentence ==
    /\ call.fn = "truncateToCompleteSentence"
    /\ Return(truncateToCompleteSentence(call.text, call.max))

TrimTweetLength ==
    /\ call.fn = "trimTweetLength"
    /\ Return(trimTweetLength(call.text, call.max))

SpecTruncate ==
    InitTruncate /\ [][TruncateToCompleteSentence \/ TrimTweetLength]_vars

\* C25: whatever the text and the limit, the result of either function is
\* no longer than the limit, and a text within the limit is returned as it
\* is.
C25_LengthLimit ==
    ret.done =>
        /\ Len(ret.value) <= call.max
        /\ Len(call.text) <= call.max => ret.value = call.text

\* The positions (from 1) within the limit that hold c.
Within(c) == {i \in 1..Min(call.max, Len(call.text)) : call.text[i] = c}

Last(S) == CHOOSE i \in S : \A j \in S : j <= i

\* C26: for a text longer than the limit with a period within the limit,
\* the result is the prefix that ends with the last such period, and no
\* ellipsis.
C26_CutAtLastPeriod ==
    (ret.done /\ Len(call.text) > call.max /\ Within(".") # {}) =>
        ret.value = SubSeq(call.text, 1, Last(Within(".")))

\* C27: for a text longer than the limit with no period within the limit,
\* the result is the prefix before the last space within the limit plus the
\* ellipsis; with no period and no space at all it is the first limit - 3
\* characters plus the ellipsis.
C27_CutAtSpaceOrHard ==
    (ret.done /\ Len(call.text) > call.max /\ Within(".") = {}) =>
        /\ Within(" ") # {} =>
              ret.value = SubSeq(call.text, 1, Last(Within(" ")) - 1) \o Ellipsis
        /\ (\A i \in 1..Len(call.text) : call.text[i] = "a") =>
              /\ ret.value = SubSeq(call.text, 1, call.max - 3) \o Ellipsis
              /\ Len(ret.value) = call.max

-----------------------------------------------------------------------------
\* generateTweetContent.  A response of the language model is a sequence of
\* tokens: the two code fences, the two characters backslash n, a newline,
\* a space, a letter, the opening of a JSON object up to the quote that
\* begins its one field's value, and the closing of that value and object.

\* The fence with its language tag, and the bare fence (three backquotes).
FenceJson == "fence json"

Fence == "fence"

EscapedNewline == "\\n"

Newline == "\n"

\* The field names of the model: the names the code looks for, and another.
FieldNames == {"text", "content", "message", "response", "other"}

Open(field) ==
    CASE field = "text" -> "{\"text\":\""
      [] field = "content" -> "{\"content\":\""
      [] field = "message" -> "{\"message\":\""
      [] field = "response" -> "{\"response\":\""
      [] field = "other" -> "{\"other\":\""

Close == "\"}"

\* The longest field value or plain text of a response.
MaxBody == 3

RECURSIVE DropWhitespace(_)
\* \s* at the head of s.
DropWhitespace(s) ==
    IF s # <<>> /\ Head(s) \in Whitespace THEN DropWhitespace(Tail(s)) ELSE s

RECURSIVE RemoveFence(_, _)
\* replace(/fence\s*/g, "").
RemoveFence(s, fence) ==
    IF s = <<>> THEN <<>>
    ELSE IF Head(s) = fence THEN RemoveFence(DropWhitespace(Tail(s)), fence)
    ELSE <<Head(s)>> \o RemoveFence(Tail(s), fence)

\* replaceAll(/\\n/g, "\n"); also what JSON.parse makes of the escape inside
\* a string.
Unescape(s) ==
    [i \in 1..Len(s) |-> IF s[i] = EscapedNewline THEN Newline ELSE s[i]]

cleanedResponse(response) ==
    Trim(Unescape(RemoveFence(RemoveFence(response, FenceJson), Fence)))

\* What may stand inside a JSON string: no raw newline (a control
\* character), no fence token of the model.
StringTokens == {"a", " ", EscapedNewline}

\* JSON.parse(s) succeeds: s is an object with one string field.
IsJson(s) ==
    /\ Len(s) >= 2
    /\ s[1] \in {Open(f) : f \in FieldNames}
    /\ s[Len(s)] = Close
    /\ \A i \in 2..(Len(s) - 1) : s[i] \in StringTokens

JsonField(s) == CHOOSE f \in FieldNames : Open(f) = s[1]

JsonValue(s) == Unescape(SubSeq(s, 2, Len(s) - 1))

\* jsonResponse.text, else content || message || response, when truthy.
ExtractedFields == {"text", "content", "message", "response"}

generateTweetContent(response) ==
    LET cleaned == cleanedResponse(response)
    IN IF IsJson(cleaned) /\ JsonField(cleaned) \in ExtractedFields
                          /\ JsonValue(cleaned) # <<>>
       THEN trimTweetLength(JsonValue(cleaned), 280)
       ELSE trimTweetLength(cleaned, 280)

Bodies == UNION {[1..n -> {"a", " ", EscapedNewline, Newline}] : n \in 0..MaxBody}

Payloads ==
    Bodies \cup {<<Open(f)>> \o b \o <<Close>> : f \in FieldNames, b \in Bodies}

Responses ==
    {pre \o p \o post :
        pre \in {<<>>, <<FenceJson>>, <<FenceJson, Newline>>, <<Fence>>},
        p \in Payloads,
        post \in {<<>>, <<Fence>>, <<Newline, Fence>>}}

InitContent ==
    /\ Constructed
    /\ call \in [fn : {"generateTweetContent"}, response : Responses]
    /\ ret = NoReturn
    /\ now = 0
    /\ saved = <<>>
    /\ trend = NoTrend

GenerateTweetContent ==
    /\ call.fn = "generateTweetContent"
    /\ Return(generateTweetContent(call.response))

SpecContent == InitContent /\ [][GenerateTweetContent]_vars

\* The response without its fences.
Unfenced == Trim(RemoveFence(RemoveFence(call.response, FenceJson), Fence))

\* C28: the fences are stripped; if what is left is a JSON object with a
\* text field, or else a content, message or response field, the result is
\* the value of that field with its escaped newlines turned into newlines;
\* otherwise it is the cleaned string.
C28_PostProcessing ==
    ret.done =>
        ret.value =
            IF IsJson(Unfenced) /\ JsonField(Unfenced) \in ExtractedFields
                                /\ JsonValue(Unfenced) # <<>>
            THEN JsonValue(Unfenced)
            ELSE Trim(Unescape(Unfenced))

-----------------------------------------------------------------------------
-----------------------------------------------------------------------------
\* saveTweetToDb, as called by the generations of a running client: `now`
\* is the clock in ms, `saved` the records handed to saveTweetObject, each
\* with the scheduledFor argument of its call.

\* The number of saves and the last clock value of the model.
MaxSaves == 2

MaxClock == 2

Null == "null"

\* stringToUuid: a hash of its argument; two strings are taken to have two
\* hashes.
stringToUuid(s) == <<"uuid", s>>

\* The record of lines 606-620, built at clock value `at`.
tweetToSave(at, scheduledFor) ==
    [id |-> stringToUuid(<<"twitter_", at>>),
     scheduledFor |-> scheduledFor,
     status |-> "pending",
     createdAt |-> at,
     sentAt |-> Null,
     error |-> Null]

\* The scheduledFor arguments of the model: null and a date.
ScheduleArgs == {NoDate, 5000}

\* The creation time of the record getPendingTweets() returns first: any of
\* the pending records, or none when there is none.
PendingDates ==
    LET created == {saved[i].tweet.createdAt : i \in DOMAIN saved}
                     \cup (IF call.last = NoDate THEN {} ELSE {call.last})
    IN IF created = {} THEN {NoDate} ELSE created

\* The draws of Math.random() the model takes for a save: the two ends.
EndDraws(c) == {0, RandomRange(c) - 1}

\* scheduledFor ?? (await this.randomFutureDate()).
ScheduledFor(arg, future) == IF arg # NoDate THEN arg ELSE future

\* The dates randomFutureDate() can return now.
FutureDates ==
    {randomFutureDate([call EXCEPT !.last = l, !.clock = now], d) :
        l \in PendingDates, d \in EndDraws(call)}

SaveTweet ==
    /\ call.fn = "saveTweetToDb"
    /\ Len(saved) < MaxSaves
    /\ \E arg \in ScheduleArgs, future \in FutureDates :
        saved' = Append(saved,
                        [scheduledFor |-> arg, futures |-> FutureDates,
                         tweet |-> tweetToSave(now, ScheduledFor(arg, future))])
    /\ UNCHANGED <<clientVars, call, ret, now, trend>>

\* A millisecond passes.
ClockTick ==
    /\ call.fn = "saveTweetToDb"
    /\ now < MaxClock
    /\ now' = now + 1
    /\ UNCHANGED <<clientVars, call, ret, saved, trend>>

InitSave ==
    /\ Constructed
    /\ call \in [fn : {"saveTweetToDb"}, min : {Missing, Present(<<"5">>)},
                  max : {Missing, Present(<<"3", "0">>)}, last : {NoDate, 0},
                  clock : {0}]
    /\ ret = NoReturn
    /\ now = 0
    /\ saved = <<>>
    /\ trend = NoTrend

SpecSave == InitSave /\ [][SaveTweet \/ ClockTick]_vars

\* The records are pending with no send time and no error, and scheduled at
\* the argument of the call or else at a date of randomFutureDate().
SavedAsPending ==
    \A i \in DOMAIN saved :
        /\ saved[i].tweet.status = "pending"
        /\ saved[i].tweet.sentAt = Null
        /\ saved[i].tweet.error = Null
        /\ saved[i].scheduledFor # NoDate =>
              saved[i].tweet.scheduledFor = saved[i].scheduledFor
        /\ saved[i].scheduledFor = NoDate =>
              saved[i].tweet.scheduledFor \in saved[i].futures

\* C30: every record saved is pending, with no send time and no error,
\* scheduled at the explicit time or else at randomFutureDate(), and no two
\* records saved have the same id, whatever the clock was at the two saves.
C30_SavedRecords ==
    /\ SavedAsPending
    /\ \A i, j \in DOMAIN saved : i # j => saved[i].tweet.id # saved[j].tweet.id

-----------------------------------------------------------------------------
\* generateTrendingConnections and the functions it calls.  A connection is
\* its index in the list generateSimpleTrendingConnections returned.

\* The most trending searches and the most connections of the model.
MaxNodes == 1

MaxConnections == 4

ChunkSize == 3

\* What a call of the search service can come back with: fetch rejects,
\* the body is no JSON, the body is the JSON null, an object without a
\* results field, an object with a results list of 0 or 2 entries.
TavilyResponses ==
    {[kind |-> "reject", results |-> 0], [kind |-> "unparsable", results |-> 0],
     [kind |-> "null", results |-> 0], [kind |-> "noResults", results |-> 0],
     [kind |-> "results", results |-> 0], [kind |-> "results", results |-> 2]}

\* A search in flight; a list of n results; undefined.
InFlight == [done |-> FALSE, isList |-> FALSE, items |-> 0]

List(n) == [done |-> TRUE, isList |-> TRUE, items |-> n]

Undefined == [done |-> TRUE, isList |-> FALSE, items |-> 0]

\* searchTavily: fetch, response.json() and data.results inside one try
\* whose catch returns []; data.results of an object is returned as it is.
searchTavily(response) ==
    CASE response.kind \in {"reject", "unparsable", "null"} -> List(0)
      [] response.kind = "noResults" -> Undefined
      [] response.kind = "results" -> List(response.results)

Sides == {"source", "target"}

RECURSIVE Chunk(_, _)
\* chunk(list, size): the list cut into pieces of size elements, the last
\* one shorter.
Chunk(list, size) ==
    IF list = <<>> THEN <<>>
    ELSE <<SubSeq(list, 1, Min(size, Len(list)))>>
             \o Chunk(SubSeq(list, Min(size, Len(list)) + 1, Len(list)), size)

RECURSIVE Flat(_)
\* Array.prototype.flat().
Flat(lists) == IF lists = <<>> THEN <<>> ELSE Head(lists) \o Flat(Tail(lists))

Connections(n) == [i \in 1..n |-> i]

InChunk(chunks, c) == {chunks[c][k] : k \in 1..Len(chunks[c])}

\* The value of the catch of generateTrendingConnections.
Minimal == [nodes |-> 0, connections |-> 0, total_nodes |-> 0, total_connections |-> 0]

TrendReturn(v) ==
    /\ trend' = [trend EXCEPT !.pc = "returned"]
    /\ ret' = Returned(v)

\* await fetchTrendingSearches(), before the try: it returns the searches
\* or logs and rethrows.
FetchTrendingSearches ==
    /\ trend.pc = "fetch"
    /\ \/ \E k \in 0..MaxNodes : trend' = [trend EXCEPT !.pc = "simple", !.nodes = k]
       \/ trend' = [trend EXCEPT !.pc = "thrown"]
    /\ UNCHANGED <<clientVars, call, ret, now, saved>>

\* generateSimpleTrendingConnections has returned n connections and
\* enrichConnections is called: every chunk's callback runs up to its
\* first await, which starts both searches of each of its connections.  Or
\* it throws to the catch.
GenerateSimpleTrendingConnections ==
    /\ trend.pc = "simple"
    /\ \/ /\ \E n \in 0..MaxConnections :
               LET chunks == Chunk(Connections(n), ChunkSize) IN
               trend' = [trend EXCEPT
                           !.pc = "enrich",
                           !.chunks = chunks,
                           !.search = [x \in (1..n) \X Sides |-> InFlight],
                           !.chunk = [c \in 1..Len(chunks) |-> "searching"]]
          /\ UNCHANGED ret
       \/ TrendReturn(Minimal)
    /\ UNCHANGED <<clientVars, call, now, saved>>

\* One search comes back.
SearchTavily(i, side) ==
    /\ trend.pc = "enrich"
    /\ <<i, side>> \in DOMAIN trend.search
    /\ trend.search[<<i, side>>] = InFlight
    /\ \E response \in TavilyResponses :
        trend' = [trend EXCEPT !.search[<<i, side>>] = searchTavily(response)]
    /\ UNCHANGED <<clientVars, call, ret, now, saved>>

\* The Promise.all of a chunk resolves: its 1 s timer is set.
ChunkEnriched(c) ==
    /\ trend.pc = "enrich"
    /\ c \in DOMAIN trend.chunk
    /\ trend.chunk[c] = "searching"
    /\ \A i \in InChunk(trend.chunks, c), side \in Sides :
         trend.search[<<i, side>>].done
    /\ trend' = [trend EXCEPT !.chunk[c] = "delay"]
    /\ UNCHANGED <<clientVars, call, ret, now, saved>>

\* The 1 s timer of a chunk fires: the chunk's callback returns.
ChunkDelay(c) ==
    /\ trend.pc = "enrich"
    /\ c \in DOMAIN trend.chunk
    /\ trend.chunk[c] = "delay"
    /\ trend' = [trend EXCEPT !.chunk[c] = "done"]
    /\ UNCHANGED <<clientVars, call, ret, now, saved>>

\* The outer Promise.all resolves: enrichConnections returns the chunks
\* flattened, and improveConnections is called.
EnrichReturn ==
    /\ trend.pc = "enrich"
    /\ \A c \in DOMAIN trend.chunk : trend.chunk[c] = "done"
    /\ trend' = [trend EXCEPT !.pc = "improve", !.enriched = Flat(trend.chunks)]
    /\ UNCHANGED <<clientVars, call, ret, now, saved>>

\* improveConnections returns m connections and the result is built, or it
\* throws to the catch.
ImproveConnections ==
    /\ trend.pc = "improve"
    /\ \/ \E m \in 0..MaxConnections :
            TrendReturn([nodes |-> trend.nodes, connections |-> m,
                         total_nodes |-> trend.nodes, total_connections |-> m])
       \/ TrendReturn(Minimal)
    /\ UNCHANGED <<clientVars, call, now, saved>>

InitTrending ==
    /\ Constructed
    /\ call = [fn |-> "generateTrendingConnections"]
    /\ ret = NoReturn
    /\ now = 0
    /\ saved = <<>>
    /\ trend = [pc |-> "fetch", nodes |-> 0, chunks |-> <<>>, search |-> <<>>,
                chunk |-> <<>>, enriched |-> <<>>]

NextTrending ==
    \/ FetchTrendingSearches
    \/ GenerateSimpleTrendingConnections
    \/ \E i \in 1..MaxConnections, side \in Sides : SearchTavily(i, side)
    \/ \E c \in 1..MaxConnections : ChunkEnriched(c) \/ ChunkDelay(c)
    \/ EnrichReturn
    \/ ImproveConnections

SpecTrending == InitTrending /\ [][NextTrending]_vars

\* C31: every search that has come back has come back with a list; after a
\* failure the empty one.
C31_SearchReturnsList ==
    trend.pc \in {"enrich", "improve", "returned"} =>
        \A x \in DOMAIN trend.search :
            trend.search[x].done => trend.search[x].isList

\* C35: generateTrendingConnections never throws, and in every value it
\* returns total_nodes is the number of nodes and total_connections the
\* number of connections (both 0 in the value returned after a failure).
C35_NeverThrows ==
    /\ trend.pc # "thrown"
    /\ ret.done =>
          /\ ret.value.total_nodes = ret.value.nodes
          /\ ret.value.total_connections = ret.value.connections

\* The connections with a search in flight.
ConnectionsInFlight ==
    {x[1] : x \in {y \in DOMAIN trend.search : trend.search[y] = InFlight}}

\* C36: while enrichConnections runs, the searches of a chunk are started
\* only when the chunk before it has finished and its delay is over, so at
\* most 3 connections have searches in flight; and the enriched connections
\* are returned in the order of the input.
C36_ChunksInTurn ==
    /\ trend.pc = "enrich" =>
          /\ Cardinality(ConnectionsInFlight) <= ChunkSize
          /\ \A c \in DOMAIN trend.chunk :
                (c > 1 /\ trend.chunk[c - 1] # "done") =>
                    \A i \in InChunk(trend.chunks, c), side \in Sides :
                        <<i, side>> \notin DOMAIN trend.search
    /\ trend.pc \in {"improve", "returned"} /\ trend.chunks # <<>> =>
          trend.enriched = Connections(Len(trend.enriched))

-----------------------------------------------------------------------------
\* C32: a record comes into being only by the save of a generation, as
\* pending; a step of the generation path changes the status of no record
\* that exists, its own included; a step of the action processor changes
\* no status at all.
C32_StatusFrame ==
    [][/\ \A id \in Ids :
            (status[id] = "none" /\ status'[id] # "none") =>
                /\ status'[id] = "pending"
                /\ \E r \in GenRunners : gpc[r] = "save" /\ gpc'[r] = "enqueue"
       /\ gpc' # gpc =>
            \A id \in Ids : status[id] # "none" => status'[id] = status[id]
       /\ actVars' # actVars => status' = status]_vars

\* The send of a generation has come back good, its effects are written,
\* and the record it had saved is still pending.
C32_Witness ==
    \E id \in Ids :
        /\ status[id] = "pending"
        /\ sends[id].gen > 0
        /\ id \in postMemories

\* C33: the timer of the next tick is set before the current tick's work
\* starts, so whatever the current tick is doing (fetching, waiting for a
\* send, in the 60 s pause of a long batch, or over) and whatever the
\* generation loop is doing, the next tick can fire; and its firing changes
\* nothing of the tick at work, of the store or of the generation loop.
C33_TickIndependent ==
    /\ [](\A t \in Ticks :
            (t > 1 /\ tpc[t] = "off" /\ tpc[t - 1] # "off") => ENABLED TickFire(t))
    /\ [][\A t \in Ticks \ {1} :
            (tpc[t] = "off" /\ tpc'[t] # "off") =>
                /\ tpc'[t] = "fetch"
                /\ \A u \in Ticks \ {t} : tpc'[u] = tpc[u]
                /\ <<status, sends, gpc, tlist, tidx>>' = <<status, sends, gpc, tlist, tidx>>]_vars

\* The second tick is at work on its batch while the first is still in the
\* pause after an item of its own batch.
C33_Witness ==
    /\ tpc[1] = "delay"
    /\ tpc[2] \notin {"off", "done", "logerr"}
    /\ tidx[2] >= 1

----------------------------------------------------------------------------
\* The whole life of a record: the generation loop makes it and the dispatch
\* loop, after the approval, delivers it.

\* The first tick has found the store empty; the timer of the second is set.
SecondTickAhead == [t \in Ticks |-> IF t = 1 THEN "done" ELSE "off"]

InitLifetime ==
    Running([i \in Ids |-> "none"], Missing, LaunchChains,
            SecondTickAhead, "stopped", TRUE)

NextLifetime == QueueActions \/ GenActions \/ DispatchActions

SpecLifetime == InitLifetime /\ [][NextLifetime]_vars

\* C34: the content of a saved candidate goes to the network at most once
\* over the life of its record, the sends of the generation path and those of
\* the dispatch loop counted together.
C34_DeliveredAtMostOnce ==
    \A id \in Ids : sends[id].gen + sends[id].tick <= 1

\* Action x is pushed to the executed actions of caller a in this step.
Pushed(a, x) == x \in aexecuted'[a] /\ x \notin aexecuted[a]

\* C37: the executed actions of an item are among its flagged actions, in the
\* pass and in the record written for the item; an action is pushed only by
\* the step in which its network call comes back well: a like or a retweet
\* by the return of the call, not by its throw, a quote or a reply by a
\* response that carries the success path.
C37_ExecutedImpliesSucceeded ==
    /\ [](\A a \in Callers : aexecuted[a] \subseteq adecided[a])
    /\ [][\A a \in Callers, x \in ActionNames :
            Pushed(a, x) =>
                /\ x \in adecided[a]
                /\ ~ActionThrows(a, x)
                /\ x \in {"like", "retweet"} =>
                        apc[a] = (IF x = "like" THEN "liking" ELSE "retweeting")
                /\ x \in {"quote", "reply"} =>
                        /\ apc[a] = (IF x = "quote" THEN "quoting" ELSE "replying")
                        /\ resolved[ActOwner(a)] # NoResult
                        /\ resolved[ActOwner(a)].outcome = "ok"]_vars
    /\ [][\A a \in Callers :
            (apc[a] = "record" /\ memories' # memories) =>
                /\ maction'[Item(a)] = aexecuted[a]
                /\ maction'[Item(a)] \subseteq adecided[a]]_vars

\* An item's record is due with the like executed, the retweet thrown and
\* the quote answered by a response without the success path.
C37_Witness ==
    \E a \in Callers :
        /\ apc[a] = "record"
        /\ adecided[a] = {"like", "retweet", "quote"}
        /\ aexecuted[a] = {"like"}
        /\ afailed[a] = {"retweet"}

\* C38: the in-progress flag is set exactly while some caller is inside a
\* pass, and every step by which a pass ends (the return after the last item,
\* the return from inside the item loop, the throw of the timeline fetch)
\* clears it, so the next call at the loop top starts a pass.
C38_FlagFollowsPass ==
    /\ [](isProcessing <=> \E a \in Callers : InPass(a))
    /\ [][\A a \in Callers : (InPass(a) /\ ~InPass(a)') => ~isProcessing']_vars
    /\ [][\A a \in Callers :
            (apc[a] = "loop" /\ ~stopProcessingActions /\ apc'[a] # "loop"
                /\ \A b \in Callers : ~InPass(b)) => InPass(a)']_vars

\* A pass over an evaluated item has ended without a wait (the return from
\* inside the item loop) and the flag is clear.
C38_Witness ==
    /\ ~isProcessing
    /\ evaluated # {}
    /\ memories = {}
    /\ \E a \in Callers : apc[a] = "loop" /\ \A b \in Callers : apc[b] # "wait"

\* Action x stands in the executed actions of the pass that is on item i.
ExecutedOn(i, x) ==
    \E a \in Callers : InPass(a) /\ aidx[a] > 0 /\ Item(a) = i /\ x \in aexecuted[a]

\* C39: no action is executed twice on an item: once a pass that has executed
\* action x on item i has left the item, with its record written or not, no
\* pass executes x on i again.
C39_NoActionTwice ==
    \A i \in Items, x \in ActionNames :
        [](ExecutedOn(i, x) => [](~ExecutedOn(i, x) => []~ExecutedOn(i, x)))

\* The queued send of tick t has been rejected and the tick has yet to
\* handle the rejection.
TransportError(t) ==
    /\ tpc[t] = "awaitSend"
    /\ resolved[TickOwner(t)] # NoResult
    /\ resolved[TickOwner(t)].outcome = "throw"

\* C40: a rejected send is caught inside sendTweetAndUpdateCache: the tick
\* goes on to its pause, the record stays sent, nothing is written to the
\* store or the admin log; and from then on the dispatch loop sends the item
\* no more.
C40_NoRetryAfterTransportError ==
    /\ [][\A t \in Ticks :
            (TransportError(t) /\ tpc'[t] # "awaitSend") =>
                /\ tpc'[t] = "delay"
                /\ status'[Cur(t)] = "sent"
                /\ adminLog' = adminLog]_vars
    /\ \A t \in Ticks, id \in Ids, n \in 1..MaxTicks :
        []((TransportError(t) /\ Cur(t) = id /\ sends[id].tick = n) =>
                [](sends[id].tick = n))

====
